---- MODULE Spec2Model ----
(***************************************************************************)
(* Model of backend/server.py: the chat, history and delete handlers of    *)
(* the legal chatbot API over the chat_messages collection.                *)
(*                                                                         *)
(* A request is one execution of a handler coroutine.  A handler runs      *)
(* synchronously between its awaits, so one action of the model is the     *)
(* code between two awaits together with the outcome of the awaited call.  *)
(* The collection is the only shared state; the operations the store       *)
(* applies (insert_one, find, delete_many) are atomic steps.               *)
(***************************************************************************)
EXTENDS Integers, Sequences, FiniteSets, TLC

\* ------------------------------------------------------------------ bounds
\* Number of requests issued in one run.
MaxReq == 3
\* Number of requests being handled at the same time.
MaxInFlight == 2
\* Largest of the small lengths given to to_list in place of 1000, so that a
\* session can hold more documents than the length.
MaxCap == 2

\* ------------------------------------------------------- program constants
\* to_list(1000)
HistoryCap == 1000
\* HTTPException(status_code=500, ...)
StatusError == 500
\* Status of a response_model return
StatusOk == 200
\* FastAPI's answer to a body that fails ChatRequest validation; the handler
\* body, and with it the try/except, is never entered.
StatusUnprocessable == 422

\* ------------------------------------------------------------------ inputs
Reqs == 1..MaxReq
Sessions == {"s1", "s2"}
\* Completions the gateway can return.
Texts == {"a1", "a2"}
\* JSON bodies of POST /chat: a function from the fields present to strings.
Body(s, m) == [f \in {"session_id", "message"} |-> IF f = "session_id" THEN s ELSE m]
Bodies ==
    {Body("s1", "m1"), Body("s2", "")}
    \cup {[f \in {"session_id"} |-> "s1"], [f \in {"message"} |-> "m1"]}

\* Instants <<second, microsecond>> the wall clock can show: the last
\* microsecond of a second and the start of the next, which isoformat()
\* writes without a fraction.
Times == {<<0, 999999>>, <<1, 0>>}
FirstTime == <<0, 999999>>
TimeLeq(a, b) == a[1] < b[1] \/ (a[1] = b[1] /\ a[2] <= b[2])

\* ----------------------------------------------------------------- strings
\* A string whose characters matter is a sequence of character codes.
Ord(c) ==
    CASE c = "+" -> 43 [] c = "." -> 46 [] c = "0" -> 48 [] c = ":" -> 58

RECURSIVE Pow10(_)
Pow10(k) == IF k = 0 THEN 1 ELSE 10 * Pow10(k - 1)

\* n as exactly w decimal digits ("%02d", "%06d").
RECURSIVE Digits(_, _)
Digits(n, w) ==
    IF w = 0 THEN <<>>
    ELSE Append(Digits(n \div 10, w - 1), Ord("0") + (n % 10))

\* The value of a sequence of digit characters.
RECURSIVE Value(_)
Value(ds) ==
    IF ds = <<>> THEN 0
    ELSE 10 * Value(SubSeq(ds, 1, Len(ds) - 1)) + (ds[Len(ds)] - Ord("0"))

UtcOffset == <<Ord("+"), Ord("0"), Ord("0"), Ord(":"), Ord("0"), Ord("0")>>

\* datetime.isoformat() of an aware UTC datetime: the fraction is written
\* only when microsecond is not 0.  All instants of the model lie in one
\* minute, so the "YYYY-MM-DDTHH:MM:" prefix is the same for all of them and
\* is left out.
isoformat(t) ==
    Digits(t[1], 2)
    \o (IF t[2] = 0 THEN <<>> ELSE <<Ord(".")>> \o Digits(t[2], 6))
    \o UtcOffset

\* datetime.fromisoformat(): seconds, then an optional fraction of up to six
\* digits (scaled to microseconds), then the offset.
fromisoformat(s) ==
    LET sec == Value(SubSeq(s, 1, 2))
        k == Len(s) - Len(UtcOffset) - 3
    IN IF s[3] = Ord(".")
       THEN <<sec, Value(SubSeq(s, 4, 3 + k)) * Pow10(6 - k)>>
       ELSE <<sec, 0>>

\* Order of two strings in the store's sort: by character code, a proper
\* prefix first.
RECURSIVE StrLeq(_, _)
StrLeq(a, b) ==
    IF a = <<>> THEN TRUE
    ELSE IF b = <<>> THEN FALSE
    ELSE IF a[1] # b[1] THEN a[1] < b[1]
    ELSE StrLeq(Tail(a), Tail(b))

\* ------------------------------------------------------------------- state
VARIABLES
    store,          \* db.chat_messages: the documents, in insertion order
    clock,          \* the last instant datetime.now(timezone.utc) showed
    pc,             \* per request: the await it is suspended at, or its end
    op,             \* per request: "chat", "history", "delete" ("none" before)
    body,           \* per chat request: the JSON body received
    path,           \* per history/delete request: the session_id path parameter
    user_doc,       \* chat local variable user_doc
    ai_response,    \* chat local variable ai_response
    assistant_doc,  \* chat local variable assistant_doc
    resp,           \* per request: the HTTP response produced
    mine,           \* history variable: per request, the documents its
                    \*   insert_one calls added to the collection
    gwCalls,        \* history variable: per request, send_message calls made
    lastWrite,      \* history variable: per session, the last write applied
    lastList,       \* history variable: per session, the last listing returned
                    \*   since the last write to the session, and whether
                    \*   none (0), one (1) or more (2) were returned
    okChats,        \* history variable: per session, chats answered 200
    disturbed,      \* history variable: per session, whether a delete was
                    \*   applied or a chat failed after its user insert
    cap             \* the length given to to_list: 1000 in the program

vars == <<store, clock, pc, op, body, path, user_doc, ai_response,
          assistant_doc, resp, mine, gwCalls, lastWrite, lastList, okChats,
          disturbed, cap>>

\* The variables of a request's own frame.
frame == <<op, body, path, user_doc, ai_response, assistant_doc>>
\* The history variables of the sessions.
sessionHistory == <<lastWrite, lastList, okChats, disturbed>>

NoBody == [f \in {} |-> ""]
NoDoc == [id |-> 0, session_id |-> "", role |-> "", message |-> "",
          timestamp |-> <<>>]
NoResp == [status |-> 0, response |-> "", session_id |-> "",
           detail_type |-> "none", detail |-> <<>>, messages |-> <<>>,
           deleted_count |-> 0]
NoList == [n |-> 0, messages |-> <<>>]

\* uuid.uuid4(): a fresh identifier for every ChatMessage built; a request
\* builds at most one message of each role.
uuid4(r, role) == 2 * r + (IF role = "assistant" THEN 1 ELSE 0)

\* Mutant: the role of every message is "user".
ChatMessageDocAllUser(r, sid, role, message, t) ==
    [id |-> uuid4(r, role), session_id |-> sid, role |-> "user",
     message |-> message, timestamp |-> isoformat(t)]

\* ChatMessage(session_id, role, message) with the default factories run at
\* instant t, then model_dump() and timestamp replaced by its isoformat().
ChatMessageDoc(r, sid, role, message, t) ==
    [id |-> uuid4(r, role), session_id |-> sid, role |-> role,
     message |-> message, timestamp |-> isoformat(t)]

\* Mutant: the fields are declared with min_length=1.
ValidNonEmpty(b) ==
    /\ {"session_id", "message"} \subseteq DOMAIN b
    /\ \A f \in DOMAIN b : b[f] # ""

\* ChatRequest: both fields are required strings; any string is accepted.
Valid(b) == {"session_id", "message"} \subseteq DOMAIN b

\* Mutant: the except clause answers 400.
ErrorRespBadRequest(prefix, e) ==
    [NoResp EXCEPT !.status = 400, !.detail_type = "str",
                   !.detail = <<prefix, e>>]

\* HTTPException(status_code=500, detail=f"{prefix}{str(e)}")
ErrorResp(prefix, e) ==
    [NoResp EXCEPT !.status = StatusError, !.detail_type = "str",
                   !.detail = <<prefix, e>>]

\* Mutant: the two fields of the response are exchanged.
ChatResponseSwapped(text, sid) ==
    [NoResp EXCEPT !.status = StatusOk, !.response = sid, !.session_id = text]

\* ChatResponse(response=ai_response, session_id=request.session_id)
ChatResponse(text, sid) ==
    [NoResp EXCEPT !.status = StatusOk, !.response = text, !.session_id = sid]

\* --------------------------------------------------------------- the store
\* insert_one(doc): the document is added to the collection.
\* Mutant: replace_one({"session_id": ...}, doc, upsert=True): the first
\* document of the session is overwritten.
insert_oneUpsert(coll, doc) ==
    IF \E i \in DOMAIN coll : coll[i].session_id = doc.session_id
    THEN LET k == CHOOSE i \in DOMAIN coll :
                     /\ coll[i].session_id = doc.session_id
                     /\ \A j \in DOMAIN coll :
                            coll[j].session_id = doc.session_id => i <= j
         IN [coll EXCEPT ![k] = doc]
    ELSE Append(coll, doc)

insert_one(coll, doc) == Append(coll, doc)

\* find({"session_id": sid}): the documents of the session, in the order the
\* collection holds them.
\* Mutant: find({}) without the session_id filter.
findNoFilter(coll, sid) == coll

find(coll, sid) == SelectSeq(coll, LAMBDA d : d.session_id = sid)

\* sort("timestamp", 1): every order of docs that is ascending in the
\* timestamp strings.  The store fixes no order among equal keys.
RECURSIVE SortedOrders(_, _)
SortedOrders(docs, idx) ==
    IF idx = {} THEN {<<>>}
    ELSE LET least == {i \in idx : \A j \in idx :
                          StrLeq(docs[i].timestamp, docs[j].timestamp)}
         IN UNION {{<<docs[i]>> \o rest : rest \in SortedOrders(docs, idx \ {i})}
                   : i \in least}

\* Mutant: sort("timestamp", -1), the descending orders.
sortDescending(docs) ==
    {[i \in DOMAIN o |-> o[Len(o) + 1 - i]] : o \in SortedOrders(docs, DOMAIN docs)}

\* Mutant: no sort(), so the cursor's order is whatever the store yields.
RECURSIVE AnyOrders(_, _)
AnyOrders(docs, idx) ==
    IF idx = {} THEN {<<>>}
    ELSE UNION {{<<docs[i]>> \o rest : rest \in AnyOrders(docs, idx \ {i})}
                : i \in idx}
sortOmitted(docs) == AnyOrders(docs, DOMAIN docs)

sort(docs) == SortedOrders(docs, DOMAIN docs)

\* to_list(n): at most the first n documents of the cursor.
\* Mutant: the last n documents of the cursor instead of the first n.
to_listTail(docs, n) ==
    SubSeq(docs, (IF Len(docs) < n THEN 1 ELSE Len(docs) - n + 1), Len(docs))

to_list(docs, n) == SubSeq(docs, 1, IF Len(docs) < n THEN Len(docs) ELSE n)

\* Mutant: deleted_count is the number of documents left.
delete_manyCountLeft(coll, sid) ==
    LET remaining == SelectSeq(coll, LAMBDA d : d.session_id # sid)
    IN [coll |-> remaining, deleted_count |-> Len(remaining)]

\* Mutant: the filter is empty, so every document is removed.
delete_manyNoFilter(coll, sid) ==
    [coll |-> <<>>, deleted_count |-> Len(coll)]

\* delete_many({"session_id": sid}): the collection without the documents of
\* the session, and how many were removed.
delete_many(coll, sid) ==
    LET remaining == SelectSeq(coll, LAMBDA d : d.session_id # sid)
    IN [coll |-> remaining, deleted_count |-> Len(coll) - Len(remaining)]

\* The message returned for a stored document: the timestamp string parsed
\* back to a datetime.
ToMessage(d) == [d EXCEPT !.timestamp = fromisoformat(d.timestamp)]

\* -------------------------------------------------------------------- Init
Fresh ==
    /\ store = <<>>
    /\ clock = FirstTime
    /\ pc = [r \in Reqs |-> "idle"]
    /\ op = [r \in Reqs |-> "none"]
    /\ body = [r \in Reqs |-> NoBody]
    /\ path = [r \in Reqs |-> ""]
    /\ user_doc = [r \in Reqs |-> NoDoc]
    /\ ai_response = [r \in Reqs |-> ""]
    /\ assistant_doc = [r \in Reqs |-> NoDoc]
    /\ resp = [r \in Reqs |-> NoResp]
    /\ mine = [r \in Reqs |-> <<>>]
    /\ gwCalls = [r \in Reqs |-> 0]
    /\ lastWrite = [s \in Sessions |-> "none"]
    /\ lastList = [s \in Sessions |-> NoList]
    /\ okChats = [s \in Sessions |-> 0]
    /\ disturbed = [s \in Sessions |-> FALSE]

\* The state after startup: an empty collection, no request, to_list(1000).
Init == Fresh /\ cap = HistoryCap

Ended == {"done", "failed"}

\* A handler takes a step only when every response produced has been sent
\* (Sent): the sending touches nothing but the ended request's own frame.
Ready == \A q \in Reqs : pc[q] \notin Ended

\* Requests are numbered in the order they arrive.
Arrives(r) ==
    /\ Ready
    /\ pc[r] = "idle"
    /\ IF r = 1 THEN TRUE ELSE pc[r - 1] # "idle"
    /\ Cardinality({q \in Reqs : pc[q] \notin {"idle", "closed"}}) < MaxInFlight

\* The documents a step added at the end of the collection.
Added(before, after) ==
    IF Len(after) > Len(before)
    THEN SubSeq(after, Len(before) + 1, Len(after)) ELSE <<>>

\* A write to session sid was applied.
Wrote(sid, kind) ==
    /\ lastWrite' = [lastWrite EXCEPT ![sid] = kind]
    /\ lastList' = [lastList EXCEPT ![sid] = NoList]

\* Session sid no longer holds exactly the turns of its answered chats.
Disturb(sid) ==
    /\ disturbed' = [disturbed EXCEPT ![sid] = TRUE]
    /\ UNCHANGED okChats

\* ------------------------------------------------------------- POST /chat
\* A body that fails validation: FastAPI answers 422 with a list of errors
\* before chat() is called.
ChatInvalid(r, b) ==
    /\ Arrives(r)
    /\ ~Valid(b)
    /\ op' = [op EXCEPT ![r] = "chat"]
    /\ body' = [body EXCEPT ![r] = b]
    /\ pc' = [pc EXCEPT ![r] = "failed"]
    /\ resp' = [resp EXCEPT ![r] =
                  [NoResp EXCEPT !.status = StatusUnprocessable,
                                 !.detail_type = "list",
                                 !.detail = <<"missing">>]]
    /\ UNCHANGED <<cap, store, clock, path, user_doc, ai_response, assistant_doc,
                   mine, gwCalls, sessionHistory>>

\* chat() up to its first await: user_msg is built, with the timestamp read
\* from the clock, and insert_one(user_doc) is issued.
ChatStart(r, b, t) ==
    /\ Arrives(r)
    /\ Valid(b)
    /\ TimeLeq(clock, t)
    /\ clock' = t
    /\ op' = [op EXCEPT ![r] = "chat"]
    /\ body' = [body EXCEPT ![r] = b]
    /\ user_doc' = [user_doc EXCEPT ![r] =
                      ChatMessageDoc(r, b.session_id, "user", b.message, t)]
    /\ pc' = [pc EXCEPT ![r] = "insert_user"]
    /\ UNCHANGED <<cap, store, path, ai_response, assistant_doc, resp, mine,
                   gwCalls, sessionHistory>>

\* The store applies insert_one(user_doc); chat() goes on to build the
\* LlmChat and to call send_message.
InsertUserOk(r) ==
    /\ Ready
    /\ pc[r] = "insert_user"
    /\ store' = insert_one(store, user_doc[r])
    /\ mine' = [mine EXCEPT ![r] = @ \o Added(store, store')]
    /\ Wrote(user_doc[r].session_id, "insert")
    /\ gwCalls' = [gwCalls EXCEPT ![r] = @ + 1]
    /\ pc' = [pc EXCEPT ![r] = "send_message"]
    /\ UNCHANGED <<cap, clock, frame, resp, okChats, disturbed>>

\* Mutant: a failure of insert_one(user_doc) is swallowed and chat() goes on
\* to call send_message.
InsertUserFailSwallowed(r) ==
    /\ Ready
    /\ pc[r] = "insert_user"
    /\ gwCalls' = [gwCalls EXCEPT ![r] = @ + 1]
    /\ pc' = [pc EXCEPT ![r] = "send_message"]
    /\ UNCHANGED <<cap, store, clock, frame, resp, mine, sessionHistory>>

\* insert_one(user_doc) raises: the except clause answers 500.
InsertUserFail(r) ==
    /\ Ready
    /\ pc[r] = "insert_user"
    /\ pc' = [pc EXCEPT ![r] = "failed"]
    /\ resp' = [resp EXCEPT ![r] = ErrorResp("Chat error: ", "StorageError")]
    /\ UNCHANGED <<cap, store, clock, frame, mine, gwCalls, sessionHistory>>

\* Mutant: assistant_msg is given the timestamp of user_msg.
GatewayOkStale(r, text, t) ==
    /\ Ready
    /\ pc[r] = "send_message"
    /\ TimeLeq(clock, t)
    /\ clock' = t
    /\ ai_response' = [ai_response EXCEPT ![r] = text]
    /\ assistant_doc' = [assistant_doc EXCEPT ![r] =
            [ChatMessageDoc(r, body[r].session_id, "assistant", text, t)
                EXCEPT !.timestamp = user_doc[r].timestamp]]
    /\ pc' = [pc EXCEPT ![r] = "insert_assistant"]
    /\ UNCHANGED <<cap, store, op, body, path, user_doc, resp, mine, gwCalls,
                   sessionHistory>>

\* send_message returns text; assistant_msg is built, with the timestamp
\* read from the clock, and insert_one(assistant_doc) is issued.
GatewayOk(r, text, t) ==
    /\ Ready
    /\ pc[r] = "send_message"
    /\ TimeLeq(clock, t)
    /\ clock' = t
    /\ ai_response' = [ai_response EXCEPT ![r] = text]
    /\ assistant_doc' = [assistant_doc EXCEPT ![r] =
            ChatMessageDoc(r, body[r].session_id, "assistant", text, t)]
    /\ pc' = [pc EXCEPT ![r] = "insert_assistant"]
    /\ UNCHANGED <<cap, store, op, body, path, user_doc, resp, mine, gwCalls,
                   sessionHistory>>

\* Mutant: the except clause removes the user turn again.
GatewayFailRollback(r) ==
    /\ Ready
    /\ pc[r] = "send_message"
    /\ pc' = [pc EXCEPT ![r] = "failed"]
    /\ resp' = [resp EXCEPT ![r] = ErrorResp("Chat error: ", "GatewayError")]
    /\ store' = SelectSeq(store, LAMBDA d : d.id # user_doc[r].id)
    /\ Disturb(body[r].session_id)
    /\ UNCHANGED <<cap, clock, frame, mine, gwCalls, lastWrite, lastList>>

\* Mutant: a failure of send_message is retried.
GatewayFailRetry(r) ==
    /\ Ready
    /\ pc[r] = "send_message"
    /\ gwCalls' = [gwCalls EXCEPT ![r] = @ + 1]
    /\ UNCHANGED <<cap, store, clock, pc, op, body, path, user_doc,
                   ai_response, assistant_doc, resp, mine, sessionHistory>>

\* send_message raises: the except clause answers 500.
GatewayFail(r) ==
    /\ Ready
    /\ pc[r] = "send_message"
    /\ pc' = [pc EXCEPT ![r] = "failed"]
    /\ resp' = [resp EXCEPT ![r] = ErrorResp("Chat error: ", "GatewayError")]
    /\ Disturb(body[r].session_id)
    /\ UNCHANGED <<cap, store, clock, frame, mine, gwCalls, lastWrite, lastList>>

\* The store applies insert_one(assistant_doc); chat() returns the
\* ChatResponse.
InsertAssistantOk(r) ==
    /\ Ready
    /\ pc[r] = "insert_assistant"
    /\ store' = insert_one(store, assistant_doc[r])
    /\ mine' = [mine EXCEPT ![r] = @ \o Added(store, store')]
    /\ Wrote(assistant_doc[r].session_id, "insert")
    /\ pc' = [pc EXCEPT ![r] = "done"]
    /\ resp' = [resp EXCEPT ![r] =
                  ChatResponse(ai_response[r], body[r].session_id)]
    /\ okChats' = [okChats EXCEPT ![body[r].session_id] = @ + 1]
    /\ UNCHANGED <<cap, clock, frame, gwCalls, disturbed>>

\* Mutant: a failure of insert_one(assistant_doc) sends chat() back to
\* send_message.
InsertAssistantFailRetry(r) ==
    /\ Ready
    /\ pc[r] = "insert_assistant"
    /\ pc' = [pc EXCEPT ![r] = "send_message"]
    /\ ai_response' = [ai_response EXCEPT ![r] = ""]
    /\ assistant_doc' = [assistant_doc EXCEPT ![r] = NoDoc]
    /\ UNCHANGED <<cap, store, clock, op, body, path, user_doc, resp, mine,
                   gwCalls, sessionHistory>>

\* insert_one(assistant_doc) raises: the except clause answers 500.
InsertAssistantFail(r) ==
    /\ Ready
    /\ pc[r] = "insert_assistant"
    /\ pc' = [pc EXCEPT ![r] = "failed"]
    /\ resp' = [resp EXCEPT ![r] = ErrorResp("Chat error: ", "StorageError")]
    /\ Disturb(body[r].session_id)
    /\ UNCHANGED <<cap, store, clock, frame, mine, gwCalls, lastWrite, lastList>>

\* ------------------------------------------- GET /chat/history/{session_id}
\* find().sort().to_list(1000) returns; the timestamps are parsed and the
\* messages returned.
GetChatHistory(r, sid) ==
    /\ Arrives(r)
    /\ \E docs \in sort(find(store, sid)) :
         LET messages == [i \in DOMAIN to_list(docs, cap) |->
                             ToMessage(to_list(docs, cap)[i])]
         IN /\ resp' = [resp EXCEPT ![r] =
                          [NoResp EXCEPT !.status = StatusOk,
                                         !.messages = messages]]
            /\ lastList' = [lastList EXCEPT ![sid] =
                              [n |-> IF @.n = 0 THEN 1 ELSE 2,
                               messages |-> messages]]
    /\ op' = [op EXCEPT ![r] = "history"]
    /\ path' = [path EXCEPT ![r] = sid]
    /\ pc' = [pc EXCEPT ![r] = "done"]
    /\ UNCHANGED <<cap, store, clock, body, user_doc, ai_response, assistant_doc,
                   mine, gwCalls, lastWrite, okChats, disturbed>>

\* The query raises: the except clause answers 500.
GetChatHistoryFail(r, sid) ==
    /\ Arrives(r)
    /\ op' = [op EXCEPT ![r] = "history"]
    /\ path' = [path EXCEPT ![r] = sid]
    /\ pc' = [pc EXCEPT ![r] = "failed"]
    /\ resp' = [resp EXCEPT ![r] =
                  ErrorResp("Error fetching history: ", "StorageError")]
    /\ UNCHANGED <<cap, store, clock, body, user_doc, ai_response, assistant_doc,
                   mine, gwCalls, sessionHistory>>

\* ---------------------------------------- DELETE /chat/history/{session_id}
\* delete_many returns; its deleted_count is returned with the session id.
ClearChatHistory(r, sid) ==
    /\ Arrives(r)
    /\ store' = delete_many(store, sid).coll
    /\ resp' = [resp EXCEPT ![r] =
                  [NoResp EXCEPT !.status = StatusOk,
                                 !.deleted_count = delete_many(store, sid).deleted_count,
                                 !.session_id = sid]]
    /\ Wrote(sid, "delete")
    /\ Disturb(sid)
    /\ op' = [op EXCEPT ![r] = "delete"]
    /\ path' = [path EXCEPT ![r] = sid]
    /\ pc' = [pc EXCEPT ![r] = "done"]
    /\ UNCHANGED <<cap, clock, body, user_doc, ai_response, assistant_doc, mine,
                   gwCalls>>

\* delete_many raises: the except clause answers 500.
ClearChatHistoryFail(r, sid) ==
    /\ Arrives(r)
    /\ op' = [op EXCEPT ![r] = "delete"]
    /\ path' = [path EXCEPT ![r] = sid]
    /\ pc' = [pc EXCEPT ![r] = "failed"]
    /\ resp' = [resp EXCEPT ![r] =
                  ErrorResp("Error clearing history: ", "StorageError")]
    /\ UNCHANGED <<cap, store, clock, body, user_doc, ai_response, assistant_doc,
                   mine, gwCalls, sessionHistory>>

\* ------------------------------------------------------------ the response
\* The response of an ended request is sent and its frame is discarded.
Sent(r) ==
    /\ pc[r] \in Ended
    /\ pc' = [pc EXCEPT ![r] = "closed"]
    /\ op' = [op EXCEPT ![r] = "none"]
    /\ body' = [body EXCEPT ![r] = NoBody]
    /\ path' = [path EXCEPT ![r] = ""]
    /\ user_doc' = [user_doc EXCEPT ![r] = NoDoc]
    /\ ai_response' = [ai_response EXCEPT ![r] = ""]
    /\ assistant_doc' = [assistant_doc EXCEPT ![r] = NoDoc]
    /\ resp' = [resp EXCEPT ![r] = NoResp]
    /\ mine' = [mine EXCEPT ![r] = <<>>]
    /\ gwCalls' = [gwCalls EXCEPT ![r] = 0]
    /\ UNCHANGED <<cap, store, clock, sessionHistory>>

\* -------------------------------------------------------------------- Next
Next ==
    \E r \in Reqs :
        \/ \E b \in Bodies : ChatInvalid(r, b)
        \/ \E b \in Bodies, t \in Times : ChatStart(r, b, t)
        \/ InsertUserOk(r)
        \/ InsertUserFail(r)
        \/ \E text \in Texts, t \in Times : GatewayOk(r, text, t)
        \/ GatewayFail(r)
        \/ InsertAssistantOk(r)
        \/ InsertAssistantFail(r)
        \/ \E sid \in Sessions : GetChatHistory(r, sid)
        \/ \E sid \in Sessions : GetChatHistoryFail(r, sid)
        \/ \E sid \in Sessions : ClearChatHistory(r, sid)
        \/ \E sid \in Sessions : ClearChatHistoryFail(r, sid)
        \/ Sent(r)

Spec == Init /\ [][Next]_vars

\* The awaited call of request r returns or raises, or its response is sent.
Progress(r) ==
    \/ InsertUserOk(r)
    \/ InsertUserFail(r)
    \/ \E text \in Texts, t \in Times : GatewayOk(r, text, t)
    \/ GatewayFail(r)
    \/ InsertAssistantOk(r)
    \/ InsertAssistantFail(r)
    \/ Sent(r)

\* The program when every awaited store and gateway call returns or raises
\* and the event loop resumes the coroutine that awaited it.
FairSpec == Init /\ [][Next]_vars /\ \A r \in Reqs : WF_vars(Progress(r))

\* The same program with the length given to to_list drawn from Caps: 1000
\* documents in one session are out of reach of the requests of one run, and
\* to_list(n) treats every n alike.
Caps == (1..MaxCap) \cup {HistoryCap}
InitCap == Fresh /\ cap \in Caps
SpecCap == InitCap /\ [][Next]_vars

\* ================================================================= claims
ts(d) == fromisoformat(d.timestamp)
IsChat(r) == op[r] = "chat"
\* The documents of session sid in collection coll.
Count(coll, sid) == Cardinality({i \in DOMAIN coll : coll[i].session_id = sid})
\* Request r takes the step from pc value a to pc value b.
Moves(r, a, b) == pc[r] = a /\ pc'[r] = b

\* C1: a chat request answered 200 has itself added exactly two documents:
\* first one with role user and the request's message, then one with role
\* assistant, both with the request's session_id, the user timestamp not
\* later than the assistant timestamp.
C1_TwoEntries ==
    \A r \in Reqs :
        (IsChat(r) /\ pc[r] = "done" /\ resp[r].status = StatusOk) =>
            /\ Len(mine[r]) = 2
            /\ mine[r][1].role = "user"
            /\ mine[r][1].message = body[r].message
            /\ mine[r][2].role = "assistant"
            /\ mine[r][1].session_id = body[r].session_id
            /\ mine[r][2].session_id = body[r].session_id
            /\ TimeLeq(ts(mine[r][1]), ts(mine[r][2]))
C1_Witness ==
    \E r \in Reqs :
        /\ IsChat(r) /\ pc[r] = "done" /\ resp[r].status = StatusOk
        /\ body[r].message = "m1"
        /\ ts(mine[r][1]) # ts(mine[r][2])

\* C2: when send_message fails, the step leaves the collection as it is (the
\* user turn is not removed), the request has added its user turn and no
\* assistant turn, and the caller gets a status other than 200.
C2_GatewayFailure ==
    [][\A r \in Reqs :
          (Moves(r, "send_message", "failed")) =>
              /\ store' = store
              /\ Len(mine'[r]) = 1
              /\ mine'[r][1].role = "user"
              /\ mine'[r][1] = user_doc[r]
              /\ resp'[r].status # StatusOk
              /\ resp'[r].status # 0]_vars
C2_Witness ==
    \E r \in Reqs :
        /\ IsChat(r) /\ pc[r] = "failed"
        /\ resp[r].detail = <<"Chat error: ", "GatewayError">>
        /\ \E i \in DOMAIN store : store[i] = user_doc[r]

\* C3: a chat request answered 200 returns its own session_id and the text
\* send_message returned to it, and has by then added an assistant turn with
\* that text and session_id; when the assistant insert fails the answer is
\* an error that carries no completion text.
C3_PersistBeforeRespond ==
    \A r \in Reqs :
        /\ (IsChat(r) /\ pc[r] = "done") =>
              /\ resp[r].status = StatusOk
              /\ resp[r].session_id = body[r].session_id
              /\ resp[r].response = ai_response[r]
              /\ ai_response[r] \in Texts
              /\ \E i \in DOMAIN mine[r] :
                    /\ mine[r][i].role = "assistant"
                    /\ mine[r][i].message = resp[r].response
                    /\ mine[r][i].session_id = resp[r].session_id
                    /\ \E j \in DOMAIN store : store[j] = mine[r][i]
        /\ (IsChat(r) /\ pc[r] = "failed" /\ assistant_doc[r] # NoDoc) =>
              /\ resp[r].status = StatusError
              /\ resp[r].response = ""
              /\ Len(mine[r]) = 1
C3_Witness ==
    /\ \E r \in Reqs :
          IsChat(r) /\ pc[r] = "done" /\ resp[r].response = "a2"
                    /\ body[r].session_id = "s2"
    /\ \E q \in Reqs : IsChat(q) /\ ai_response[q] = "a1"

\* C4: a delete returns the number of documents of the session that were in
\* the collection and leaves none; a delete that follows a delete of the
\* same session with no insert between returns 0 with status 200, and a
\* listing that follows a delete with no insert between is empty.
C4_DeleteCount ==
    [][\A r \in Reqs :
          /\ (Moves(r, "idle", "done") /\ op'[r] = "delete") =>
                /\ resp'[r].deleted_count = Count(store, path'[r])
                /\ Count(store', path'[r]) = 0
                /\ resp'[r].status = StatusOk
                /\ lastWrite[path'[r]] = "delete" => resp'[r].deleted_count = 0
          /\ (Moves(r, "idle", "done") /\ op'[r] = "history"
                /\ lastWrite[path'[r]] = "delete") =>
                resp'[r].messages = <<>>]_vars
\* A session that had an answered chat is deleted a second time.
C4_Witness ==
    \E r \in Reqs :
        /\ op[r] = "delete" /\ pc[r] = "done"
        /\ okChats[path[r]] >= 1
        /\ resp[r].deleted_count = 0
\* The messages of a listing are in non-decreasing timestamp order.
Sorted(msgs) ==
    \A i, j \in DOMAIN msgs : i < j => TimeLeq(msgs[i].timestamp, msgs[j].timestamp)
IsListing(r) == op[r] = "history" /\ pc[r] = "done"
\* A chat on session sid has added its user turn and not yet ended.
Answering(sid) ==
    \E q \in Reqs : /\ IsChat(q) /\ pc[q] \in {"send_message", "insert_assistant"}
                    /\ body[q].session_id = sid

\* C5 as stated: a listing of a session on which N chats were answered 200
\* returns 2N messages, in non-decreasing timestamp order.
C5_Original ==
    \A r \in Reqs :
        IsListing(r) =>
            /\ Len(resp[r].messages) = 2 * okChats[path[r]]
            /\ Sorted(resp[r].messages)

\* C5 as amended: every listing is in non-decreasing timestamp order, and it
\* returns 2N messages (2N <= 1000) for a session on which N chats were
\* answered 200, no chat failed after its user insert, no chat is between its
\* user insert and its end, and no delete was applied.
C5_Amended ==
    \A r \in Reqs :
        IsListing(r) =>
            /\ Sorted(resp[r].messages)
            /\ (~disturbed[path[r]] /\ ~Answering(path[r])
                    /\ 2 * okChats[path[r]] <= HistoryCap) =>
                  Len(resp[r].messages) = 2 * okChats[path[r]]
C5_Witness ==
    \E r \in Reqs :
        /\ IsListing(r) /\ ~disturbed[path[r]] /\ ~Answering(path[r])
        /\ okChats[path[r]] = 2
        /\ Len(resp[r].messages) = 4
        /\ resp[r].messages[1].timestamp # resp[r].messages[4].timestamp

\* C6 as stated: within a session the timestamps are non-decreasing in
\* insertion order, whatever the interleaving of the chat requests.
C6_Original ==
    \A i, j \in DOMAIN store :
        (i < j /\ store[i].session_id = store[j].session_id) =>
            TimeLeq(ts(store[i]), ts(store[j]))

\* C6 as amended: a listing is in non-decreasing timestamp order, and a
\* message's timestamp is not earlier than that of any document inserted
\* before the message was built (so insertion order is timestamp order for
\* messages whose building and insertion do not overlap).
C6_Amended ==
    [][\A r \in Reqs :
          /\ Moves(r, "idle", "insert_user") =>
                \A i \in DOMAIN store : TimeLeq(ts(store[i]), ts(user_doc'[r]))
          /\ Moves(r, "send_message", "insert_assistant") =>
                \A i \in DOMAIN store : TimeLeq(ts(store[i]), ts(assistant_doc'[r]))
          /\ (Moves(r, "idle", "done") /\ op'[r] = "history") =>
                Sorted(resp'[r].messages)]_vars
\* An assistant message built after another request's turn was inserted in
\* its session, with a later timestamp.
C6_Witness ==
    \E r \in Reqs :
        /\ pc[r] = "insert_assistant"
        /\ \E i \in DOMAIN store :
              /\ store[i].session_id = assistant_doc[r].session_id
              /\ store[i].id # user_doc[r].id
              /\ ts(store[i]) # ts(assistant_doc[r])

Present(b) == {"session_id", "message"} \subseteq DOMAIN b
Empty(b) == \E f \in DOMAIN b : b[f] = ""
NoSideEffect(r) == pc[r] = "failed" /\ mine[r] = <<>> /\ gwCalls[r] = 0

\* C7 as stated: a chat request with a missing or empty session_id or
\* message fails at validation, having inserted nothing and not called
\* send_message.
C7_Original ==
    \A r \in Reqs :
        (IsChat(r) /\ (~Present(body[r]) \/ Empty(body[r]))) => NoSideEffect(r)

\* C7 as amended: a chat request with a missing session_id or message fails
\* at validation, having inserted nothing and not called send_message; a
\* request with both fields present, empty or not, passes validation.
C7_Amended ==
    \A r \in Reqs :
        IsChat(r) =>
            /\ ~Present(body[r]) => (NoSideEffect(r) /\ user_doc[r] = NoDoc)
            /\ Present(body[r]) =>
                  /\ resp[r].status # StatusUnprocessable
                  /\ user_doc[r].message = body[r].message
                  /\ user_doc[r].session_id = body[r].session_id
C7_Witness ==
    /\ \E r \in Reqs : IsChat(r) /\ ~Present(body[r]) /\ NoSideEffect(r)
    /\ Len(store) > 0

\* C8 as stated: every failed chat request is answered 500 with a detail
\* string.
C8_Original ==
    \A r \in Reqs :
        (IsChat(r) /\ pc[r] = "failed") =>
            resp[r].status = StatusError /\ resp[r].detail_type = "str"

\* C8 as amended: a chat request that fails in the store or in the gateway
\* is answered 500 with a detail string; one that fails validation is
\* answered 422 with a list of errors.
C8_Amended ==
    \A r \in Reqs :
        (IsChat(r) /\ pc[r] = "failed") =>
            IF Present(body[r])
            THEN /\ resp[r].status = StatusError
                 /\ resp[r].detail_type = "str"
                 /\ resp[r].detail[1] = "Chat error: "
            ELSE /\ resp[r].status = StatusUnprocessable
                 /\ resp[r].detail_type = "list"
C8_Witness ==
    \E r \in Reqs :
        /\ IsChat(r) /\ pc[r] = "failed"
        /\ resp[r].detail = <<"Chat error: ", "StorageError">>
        /\ assistant_doc[r] # NoDoc

\* The sessions the request in frame <<o, b, p>> names.
Named(o, b, p) ==
    IF o = "chat" THEN (IF "session_id" \in DOMAIN b THEN {b["session_id"]} ELSE {})
    ELSE IF o = "none" THEN {} ELSE {p}

\* C9: a step of a request leaves the documents of every session the
\* request does not name as they are, in the same order.
C9_SessionIsolation ==
    [][\A r \in Reqs :
          pc'[r] # pc[r] =>
              \A s \in Sessions \ (Named(op[r], body[r], path[r])
                                       \cup Named(op'[r], body'[r], path'[r])) :
                  find(store', s) = find(store, s)]_vars
\* A delete of one session while the other holds documents.
C9_Witness ==
    \E r \in Reqs :
        /\ op[r] = "delete" /\ pc[r] = "done" /\ resp[r].deleted_count > 0
        /\ \E i \in DOMAIN store : store[i].session_id # path[r]

Range(f) == {f[i] : i \in DOMAIN f}
Relists(r, sid) ==
    /\ Moves(r, "idle", "done") /\ op'[r] = "history" /\ path'[r] = sid
    /\ lastList[sid].n > 0

C11_EmptyListing ==
    \A r \in Reqs :
        (op[r] = "history" /\ pc[r] = "done" /\ Count(store, path[r]) = 0) =>
            /\ resp[r].status = StatusOk
            /\ resp[r].messages = <<>>
            /\ resp[r].detail = ""
\* A session emptied by a delete after a successful chat is listed.
C11_Witness ==
    \E r \in Reqs :
        /\ op[r] = "history" /\ pc[r] = "done"
        /\ Count(store, path[r]) = 0
        /\ lastWrite[path[r]] = "delete"
        /\ okChats[path[r]] >= 1
        /\ resp[r].messages = <<>>

\* C12: within one chat request send_message is called only after the
\* store has applied the insert of the user turn; the assistant turn is
\* built and its insert issued only after send_message has returned a
\* text; a request whose user insert failed has called no gateway and has
\* built and inserted no assistant turn; a request whose send_message
\* failed has built and inserted no assistant turn.
C12_StepOrder ==
    \A r \in Reqs :
        IsChat(r) =>
            /\ gwCalls[r] > 0 =>
                   /\ Len(mine[r]) >= 1
                   /\ mine[r][1] = user_doc[r]
                   /\ mine[r][1].role = "user"
            /\ pc[r] = "send_message" =>
                   /\ gwCalls[r] = 1
                   /\ mine[r] = <<user_doc[r]>>
                   /\ assistant_doc[r] = NoDoc
            /\ (\/ pc[r] = "insert_assistant"
                \/ assistant_doc[r] # NoDoc
                \/ \E i \in DOMAIN mine[r] : mine[r][i].role = "assistant") =>
                   /\ gwCalls[r] = 1
                   /\ ai_response[r] \in Texts
                   /\ assistant_doc[r].message = ai_response[r]
                   /\ mine[r][1] = user_doc[r]
            /\ (pc[r] = "failed" /\ Present(body[r]) /\ mine[r] = <<>>) =>
                   /\ gwCalls[r] = 0
                   /\ ai_response[r] = ""
                   /\ assistant_doc[r] = NoDoc
            /\ (pc[r] = "failed"
                  /\ resp[r].detail = <<"Chat error: ", "GatewayError">>) =>
                   /\ assistant_doc[r] = NoDoc
                   /\ mine[r] = <<user_doc[r]>>
\* A chat request fails at its user insert while another chat request has
\* its assistant insert issued.
C12_Witness ==
    \E r, q \in Reqs :
        /\ IsChat(r) /\ pc[r] = "failed" /\ Present(body[r])
        /\ mine[r] = <<>> /\ gwCalls[r] = 0
        /\ IsChat(q) /\ pc[q] = "insert_assistant"

\* The request that takes this step is a delete of session sid.
Deletes(sid) ==
    \E r \in Reqs : Moves(r, "idle", "done") /\ op'[r] = "delete" /\ path'[r] = sid

\* C13: in every step, every stored document either stays in the store with
\* the same id, session_id, role, message and timestamp and in the same
\* order relative to the other documents that stay, or the step is a delete
\* of the document's own session; no step stores a document under the id of
\* a document already stored; the steps of chat and history requests remove
\* and change no stored document.
C13_AppendOnly ==
    [][/\ \A i \in DOMAIN store :
             \/ \E j \in DOMAIN store' : store'[j] = store[i]
             \/ Deletes(store[i].session_id)
       /\ \A i \in DOMAIN store, j \in DOMAIN store' :
             store'[j].id = store[i].id => store'[j] = store[i]
       /\ \A i1, i2 \in DOMAIN store, j1, j2 \in DOMAIN store' :
             (i1 < i2 /\ store'[j1] = store[i1] /\ store'[j2] = store[i2])
                => j1 < j2
       /\ (\A sid \in Sessions : ~Deletes(sid)) =>
             /\ Len(store') >= Len(store)
             /\ SubSeq(store', 1, Len(store)) = store]_vars
\* A chat request has appended both its turns to a store that held other
\* documents, after a delete or a failed chat on its session.
C13_Witness ==
    \E r \in Reqs :
        /\ IsChat(r) /\ pc[r] = "done"
        /\ Len(store) >= 3
        /\ disturbed[body[r].session_id]
        /\ Len(mine[r]) = 2

\* C14: a listing of a session that holds at most cap documents returns
\* all of them; a listing of a session that holds more returns exactly cap
\* messages, in non-decreasing timestamp order, and no omitted document has
\* a timestamp earlier than a returned one: the newest are left out.
C14_Cap ==
    \A r \in Reqs :
        IsListing(r) =>
            LET all == find(store, path[r])
                out == resp[r].messages
                Out == Range(out)
                All == {ToMessage(all[i]) : i \in DOMAIN all}
            IN /\ Sorted(out)
               /\ Out \subseteq All
               /\ Cardinality(Out) = Len(out)
               /\ Len(all) <= cap => (Len(out) = Len(all) /\ Out = All)
               /\ Len(all) > cap =>
                     /\ Len(out) = cap
                     /\ \A m \in Out, o \in All \ Out :
                            TimeLeq(m.timestamp, o.timestamp)
\* A session that holds more documents than the length given to to_list is
\* listed, and a document later than a returned one is left out.
C14_Witness ==
    \E r \in Reqs :
        /\ IsListing(r)
        /\ Count(store, path[r]) > cap
        /\ Len(resp[r].messages) = cap
        /\ \E i \in DOMAIN store :
              /\ store[i].session_id = path[r]
              /\ \A k \in DOMAIN resp[r].messages :
                     resp[r].messages[k].id # store[i].id
              /\ ts(store[i]) # resp[r].messages[1].timestamp

\* The documents of the given role among those a request has added.
OfRole(docs, role) == {i \in DOMAIN docs : docs[i].role = role}

\* C15: a request calls send_message at most once and adds at most one user
\* turn and at most one assistant turn; the step in which one of its calls
\* fails changes neither the collection nor its count of gateway calls; a
\* failed request takes no step but the sending of its error response,
\* which changes nothing in the collection, and a closed request never
\* moves again.
C15_NoRetry ==
    [][\A r \in Reqs :
          /\ gwCalls'[r] <= 1
          /\ Cardinality(OfRole(mine'[r], "user")) <= 1
          /\ Cardinality(OfRole(mine'[r], "assistant")) <= 1
          /\ (pc[r] # "failed" /\ pc'[r] = "failed") =>
                 /\ store' = store
                 /\ gwCalls'[r] = gwCalls[r]
                 /\ mine'[r] = mine[r]
          /\ pc[r] = "failed" =>
                 /\ pc'[r] \in {"failed", "closed"}
                 /\ store' = store
                 /\ gwCalls'[r] <= gwCalls[r]
          /\ pc[r] = "closed" => pc'[r] = "closed"]_vars
\* A chat request has failed at its assistant insert, after one gateway
\* call and one insert of its own, while another chat request is waiting
\* for the gateway.
C15_Witness ==
    \E r, q \in Reqs :
        /\ IsChat(r) /\ pc[r] = "failed"
        /\ assistant_doc[r] # NoDoc
        /\ gwCalls[r] = 1 /\ Len(mine[r]) = 1
        /\ IsChat(q) /\ pc[q] = "send_message"

\* The stored documents of session sid that have the given role.
Turns(sid, role) ==
    {i \in DOMAIN store : store[i].session_id = sid /\ store[i].role = role}

InFlight == {"insert_user", "send_message", "insert_assistant"}

\* C17: when every awaited call returns or raises, every chat request
\* reaches an end, answered 200 after its assistant insert or failed with an
\* error response, whatever the other requests do: a request waiting for a
\* call leaves that condition only by ending, and each request is
\* eventually, and from then on, not waiting for a call.
C17_Terminates ==
    /\ [][\A r \in Reqs :
             pc[r] \in InFlight => pc'[r] \in InFlight \cup Ended]_vars
    /\ \A r \in Reqs : <>[](pc[r] \notin InFlight)
\* A chat request ends while another chat request is waiting for a call.
C17_Witness ==
    \E r, q \in Reqs :
        /\ IsChat(r) /\ pc[r] \in Ended /\ user_doc[r] # NoDoc
        /\ IsChat(q) /\ pc[q] \in InFlight

====
